---- MODULE Spec2Model ----
(***************************************************************************)
(* A model of pybenqaseio/qase_io.py: the QaseIO client and its QaseConfig *)
(* store.  Four independent parts of the class are modelled, each with a   *)
(* specification of its own:                                               *)
(*   SpecPage    get_all_instances (paginated fetch)                       *)
(*   SpecConfig  QaseConfig (the qase.config.json document)                *)
(*   SpecParams  the case parameter editors and the CRUD wrappers          *)
(*   SpecSync    update_test_suites_from_pytest                            *)
(* The remote Qase service is part of the state: every remote call either  *)
(* answers or raises ApiException, chosen nondeterministically.            *)
(***************************************************************************)
EXTENDS Integers, Sequences, FiniteSets, TLC

VARIABLES
    \* ---- get_all_instances
    pgRemote,       \* the remote collection, in the remote's order
    pgLimit,        \* the limit argument (page size)
    pgOffset,       \* the offset argument of the innermost pending call
    pgStack,        \* pages held by the callers waiting for their recursive call
    pgCalls,        \* offsets of the calls made to func, in order
    pgResult,       \* the value returned to the outermost caller
    pgPc,           \* "call" | "return" | "done" | "raised"
    \* ---- QaseConfig
    config_obj,     \* the in-memory document
    config_file,    \* qase.config.json: whether it exists, and its content
    cfgLast,        \* the last QaseConfig call: its name and whether it raised
    cfgRun,         \* the last add_run_id / add_run_title on this object
    \* ---- the case parameter editors
    caseParams,     \* remote: the parameter map of each test case
    params,         \* the params / unwanted_params argument of the calls
    wanted_params,  \* the wanted_params argument of replace_params_in_cases
    pbOp,           \* the editor that is running, or was last run
    pbTodo,         \* the cases its loop has still to visit
    pbStatus,       \* "idle" | "running" | "done" | "raised"
    pbOrigin,       \* qase_copy_params: the parameter map read from case_to_copy
    pbIter,         \* what the last loop iteration did
    \* ---- the wrappers of one remote call
    rmMilestones,   \* remote: the milestone titles; a milestone's id is its place
    rmRuns,         \* remote: the runs, "open" or "complete"; id = place
    rmCases,        \* remote: the ids of the test cases that exist
    crudLast,       \* the last wrapper call and what its caller saw
    \* ---- update_test_suites_from_pytest
    full_index,          \* get_pytest_files_index(...): the local test files
    move_cases,          \* argument
    root_parent_suite,   \* argument (NoneId when not given)
    assert_parent_suite, \* argument
    known_suites,        \* argument; the routine writes into it
    syKnown0,            \* known_suites as the caller passed it
    qase_suites,         \* the routine's copy of the remote suite list
    qase_cases,          \* the routine's copy of the remote case list
    qase_new_dict,       \* the index the routine builds and returns
    rmSuites,            \* remote: the suites, in the remote's order
    rmCaseSuite,         \* remote: the suite_id of each test case
    syFile,              \* position in full_index
    syCase,              \* position in the file's 'Test Cases'
    syPc,                \* "idle" | "call" | "file" | "leaf" | "cases" | "done" | "raised"
    syError,             \* the exception that ended the run
    syCreates,           \* the create_qase_suite calls issued, in order
    syUpdates,           \* the update_a_test_case calls issued, in order
    syLast               \* what the last step did

pageVars == <<pgRemote, pgLimit, pgOffset, pgStack, pgCalls, pgResult, pgPc>>
cfgVars  == <<config_obj, config_file, cfgLast, cfgRun>>
paramVars == <<caseParams, params, wanted_params, pbOp, pbTodo, pbStatus,
               pbOrigin, pbIter>>
crudVars == <<rmMilestones, rmRuns, rmCases, crudLast>>
syncVars == <<full_index, move_cases, root_parent_suite, assert_parent_suite,
              known_suites, syKnown0, qase_suites, qase_cases, qase_new_dict,
              rmSuites, rmCaseSuite, syFile, syCase, syPc, syError, syCreates,
              syUpdates, syLast>>
vars     == <<pageVars, cfgVars, paramVars, crudVars, syncVars>>

\* Python's None
None == "None"

(***************************************************************************)
(* Dictionaries are functions; these are dict[k] = v and dict.pop(k, dflt) *)
(***************************************************************************)
DictSet(d, k, v) == [x \in (DOMAIN d) \cup {k} |-> IF x = k THEN v ELSE d[x]]

DictPop(d, k) == [x \in (DOMAIN d) \ {k} |-> d[x]]

(***************************************************************************)
(*                          get_all_instances                              *)
(***************************************************************************)
MaxN == 6
MaxLimit == 3

Min(a, b) == IF a < b THEN a ELSE b

\* func(code=code, limit=limit, offset=offset): one page of the remote list
\* and the size of the whole (filtered) collection
RemotePage(remote, limit, offset) ==
    [entities |-> SubSeq(remote, offset + 1, Min(offset + limit, Len(remote))),
     filtered |-> Len(remote)]

MoreWhenWindowTouchesEnd(limit, offset, filtered) == limit + offset <= filtered

\* line 109: the test that decides whether to recurse
MorePages(limit, offset, filtered) == limit + offset < filtered

PageInit ==
    /\ pgRemote \in {[i \in 1..n |-> i] : n \in 0..MaxN}
    /\ pgLimit \in 1..MaxLimit
    /\ pgOffset = 0
    /\ pgStack = <<>>
    /\ pgCalls = <<>>
    /\ pgResult = None
    /\ pgPc = "call"

PageIdle ==
    /\ pgRemote = <<>>
    /\ pgLimit = 1
    /\ pgOffset = 0
    /\ pgStack = <<>>
    /\ pgCalls = <<>>
    /\ pgResult = None
    /\ pgPc = "idle"

\* One activation of get_all_instances whose call to func answers: either it
\* recurses (its page waits on the stack for the concatenation) or it returns
\* its page.
PageCall ==
    /\ pgPc = "call"
    /\ LET res == RemotePage(pgRemote, pgLimit, pgOffset)
       IN  /\ pgCalls' = Append(pgCalls, pgOffset)
           /\ IF MorePages(pgLimit, pgOffset, res.filtered)
              THEN /\ pgStack' = Append(pgStack, res.entities)
                   /\ pgOffset' = pgOffset + pgLimit
                   /\ pgResult' = pgResult
                   /\ pgPc' = "call"
              ELSE /\ pgResult' = res.entities
                   /\ pgPc' = "return"
                   /\ UNCHANGED <<pgStack, pgOffset>>
    /\ UNCHANGED <<pgRemote, pgLimit>>
    /\ UNCHANGED <<cfgVars, paramVars, crudVars, syncVars>>

\* The call to func raises: nothing catches it, every pending activation is
\* unwound and the caller gets the exception, not a list.
PageCallFails ==
    /\ pgPc = "call"
    /\ pgCalls' = Append(pgCalls, pgOffset)
    /\ pgStack' = <<>>
    /\ pgResult' = None
    /\ pgPc' = "raised"
    /\ UNCHANGED <<pgRemote, pgLimit, pgOffset>>
    /\ UNCHANGED <<cfgVars, paramVars, crudVars, syncVars>>

\* A waiting activation returns its page + the recursive result (line 110).
PageReturn ==
    /\ pgPc = "return"
    /\ IF pgStack = <<>>
       THEN /\ pgPc' = "done"
            /\ UNCHANGED <<pgStack, pgResult>>
       ELSE /\ pgResult' = pgStack[Len(pgStack)] \o pgResult
            /\ pgStack' = SubSeq(pgStack, 1, Len(pgStack) - 1)
            /\ pgPc' = "return"
    /\ UNCHANGED <<pgRemote, pgLimit, pgOffset, pgCalls>>
    /\ UNCHANGED <<cfgVars, paramVars, crudVars, syncVars>>

(***************************************************************************)
(*                              QaseConfig                                 *)
(***************************************************************************)

\* lines 32-66, with project_code and qase_pytest_api_key as given
qase_default_config ==
    [mode |-> "testops",
     fallback |-> "report",
     report |-> [driver |-> "local",
                 connection |-> [local |-> [path |-> "./build/qase-report",
                                            format |-> "json"]]],
     testops |-> [project |-> "CODE",
                  api |-> [token |-> "key", host |-> "qase.io"],
                  run |-> [complete |-> FALSE],
                  defect |-> FALSE,
                  bulk |-> TRUE,
                  chunk |-> 200],
     framework |-> [pytest |-> [capture |-> [logs |-> TRUE, http |-> TRUE]]],
     environment |-> "local"]

\* json.dump writes the document and json.load reads the same value back: the
\* document holds only str keys, str, int and bool values
FileOf(doc) == [exists |-> TRUE, doc |-> doc]

NoFile == [exists |-> FALSE, doc |-> qase_default_config]

Run(doc) == doc.testops.run

WithRun(doc, run) == [doc EXCEPT !.testops.run = run]

\* run_id: Union[int, str].  A str is a sequence of characters.
RunIdInputs ==
    {[kind |-> "int", n |-> 7, chars |-> <<>>],
     [kind |-> "int", n |-> 0, chars |-> <<>>],
     [kind |-> "str", n |-> 0, chars |-> <<"1", "2">>],
     [kind |-> "str", n |-> 0, chars |-> <<"0", "7">>],
     [kind |-> "str", n |-> 0, chars |-> <<"x">>],
     [kind |-> "str", n |-> 0, chars |-> <<>>]}

RunTitles == {"nightly", "smoke", "release"}

Digits == {"0", "1", "2", "3", "4", "5", "6", "7", "8", "9"}

DigitValue(c) ==
    CASE c = "0" -> 0 [] c = "1" -> 1 [] c = "2" -> 2 [] c = "3" -> 3
      [] c = "4" -> 4 [] c = "5" -> 5 [] c = "6" -> 6 [] c = "7" -> 7
      [] c = "8" -> 8 [] c = "9" -> 9

RECURSIVE DecimalValue(_)
DecimalValue(chars) ==
    IF chars = <<>> THEN 0
    ELSE 10 * DecimalValue(SubSeq(chars, 1, Len(chars) - 1))
         + DigitValue(chars[Len(chars)])

\* int(run_id): does it raise ValueError, and its value otherwise
IntRaises(x) ==
    /\ x.kind = "str"
    /\ \/ x.chars = <<>>
       \/ \E i \in 1..Len(x.chars) : x.chars[i] \notin Digits

IntOf(x) == IF x.kind = "int" THEN x.n ELSE DecimalValue(x.chars)

AddRunIdKeepsTitle(doc, n) ==
    WithRun(doc, DictSet(DictSet(Run(doc), "id", n), "complete", FALSE))

\* lines 87-89
AddRunId(doc, n) ==
    WithRun(doc, DictSet(DictPop(DictSet(Run(doc), "id", n), "title"),
                         "complete", FALSE))

\* lines 93-95
AddRunTitle(doc, t) ==
    WithRun(doc, DictSet(DictPop(DictSet(Run(doc), "title", t), "id"),
                         "complete", TRUE))

CompleteRunDropsId(doc) ==
    WithRun(doc, DictSet(DictPop(Run(doc), "id"), "complete", TRUE))

\* line 99
CompleteRun(doc) == WithRun(doc, DictSet(Run(doc), "complete", TRUE))

\* line 103
DontCompleteRun(doc) == WithRun(doc, DictSet(Run(doc), "complete", FALSE))

CfgCall(op, raised) == [op |-> op, raised |-> raised]

RunCall(kind, n, s) == [kind |-> kind, n |-> n, s |-> s]

NoRunCall == RunCall("none", 0, "")

\* __init__ with no qase.config.json in the working directory (lines 68-71)
ConfigInit ==
    /\ config_obj = qase_default_config
    /\ config_file = NoFile
    /\ cfgLast = CfgCall("init", FALSE)
    /\ cfgRun = NoRunCall

add_run_id ==
    \E run_id \in RunIdInputs :
        /\ IF IntRaises(run_id)
           THEN /\ UNCHANGED <<config_obj, config_file, cfgRun>>
                /\ cfgLast' = CfgCall("add_run_id", TRUE)
           ELSE /\ config_obj' = AddRunId(config_obj, IntOf(run_id))
                /\ config_file' = FileOf(config_obj')
                /\ cfgLast' = CfgCall("add_run_id", FALSE)
                /\ cfgRun' = RunCall("id", IntOf(run_id), "")
        /\ UNCHANGED <<pageVars, paramVars, crudVars, syncVars>>

add_run_title ==
    \E run_title \in RunTitles :
        /\ config_obj' = AddRunTitle(config_obj, run_title)
        /\ config_file' = FileOf(config_obj')
        /\ cfgLast' = CfgCall("add_run_title", FALSE)
        /\ cfgRun' = RunCall("title", 0, run_title)
        /\ UNCHANGED <<pageVars, paramVars, crudVars, syncVars>>

complete_run ==
    /\ config_obj' = CompleteRun(config_obj)
    /\ config_file' = FileOf(config_obj')
    /\ cfgLast' = CfgCall("complete_run", FALSE)
    /\ UNCHANGED cfgRun
    /\ UNCHANGED <<pageVars, paramVars, crudVars, syncVars>>

dont_complete_run ==
    /\ config_obj' = DontCompleteRun(config_obj)
    /\ config_file' = FileOf(config_obj')
    /\ cfgLast' = CfgCall("dont_complete_run", FALSE)
    /\ UNCHANGED cfgRun
    /\ UNCHANGED <<pageVars, paramVars, crudVars, syncVars>>

\* a new QaseConfig object (lines 68-71): the file when there is one, else
\* the default document
init ==
    /\ config_obj' = IF config_file.exists THEN config_file.doc
                                           ELSE qase_default_config
    /\ cfgLast' = CfgCall("init", FALSE)
    /\ cfgRun' = IF config_file.exists THEN cfgRun ELSE NoRunCall
    /\ UNCHANGED config_file
    /\ UNCHANGED <<pageVars, paramVars, crudVars, syncVars>>

\* lines 73-75
write ==
    /\ config_file' = FileOf(config_obj)
    /\ cfgLast' = CfgCall("write", FALSE)
    /\ UNCHANGED cfgRun
    /\ UNCHANGED config_obj
    /\ UNCHANGED <<pageVars, paramVars, crudVars, syncVars>>

\* lines 77-79: open() raises when the file is missing
read ==
    /\ IF ~config_file.exists
       THEN /\ UNCHANGED config_obj
            /\ cfgLast' = CfgCall("read", TRUE)
       ELSE /\ config_obj' = config_file.doc
            /\ cfgLast' = CfgCall("read", FALSE)
    /\ UNCHANGED <<config_file, cfgRun>>
    /\ UNCHANGED <<pageVars, paramVars, crudVars, syncVars>>

\* lines 81-84
remove ==
    /\ config_file' = NoFile
    /\ cfgLast' = CfgCall("remove", FALSE)
    /\ UNCHANGED cfgRun
    /\ UNCHANGED config_obj
    /\ UNCHANGED <<pageVars, paramVars, crudVars, syncVars>>

(***************************************************************************)
(*                 The wrappers of one remote call each                    *)
(***************************************************************************)
ApiWrappers ==
    {"get_test_case", "update_test_results", "create_qase_test_run",
     "complete_qase_test_run", "delete_a_test_case", "update_a_test_case",
     "create_test_case", "get_milestone_id", "create_milestone", "get_run",
     "create_qase_suite", "update_suite"}

CatchesAllButUpdate(w) ==
    w \in {"get_test_case", "update_test_results", "create_qase_test_run",
           "complete_qase_test_run", "delete_a_test_case", "create_test_case",
           "get_run", "create_qase_suite", "update_suite"}

\* the wrappers whose remote call stands in a try ... except ApiException
CatchesApiException(w) ==
    w \in {"get_test_case", "update_test_results", "create_qase_test_run",
           "complete_qase_test_run", "delete_a_test_case", "update_a_test_case",
           "create_test_case", "get_run", "create_qase_suite", "update_suite"}

\* what the caller of wrapper w sees when its remote call answers or raises
WrapperOutcome(w, remoteRaises) ==
    IF ~remoteRaises THEN "value"
    ELSE IF CatchesApiException(w) THEN None
    ELSE "raised"

(***************************************************************************)
(*                     The case parameter editors                          *)
(***************************************************************************)
Keys == {"os", "env"}
Values == {"win", "mac"}
Cases == {1, 2}

\* the parameter map of a case and the argument of a call hold at most
\* MaxValues values together
MaxValues == 3

Lists(n) == UNION {[1..k -> Values] : k \in 0..n}

RECURSIVE TotalLen(_, _)
TotalLen(m, ks) ==
    IF ks = {} THEN 0
    ELSE LET k == CHOOSE x \in ks : TRUE
         IN  Len(m[k]) + TotalLen(m, ks \ {k})

Size(m) == TotalLen(m, DOMAIN m)

\* the dictionaries of at most n values in all
ParamMaps(n) ==
    UNION {{m \in [D -> Lists(n)] : TotalLen(m, D) <= n} : D \in SUBSET Keys}

EmptyMap == [k \in {} |-> <<>>]

InList(v, list) == \E i \in 1..Len(list) : list[i] = v

ToSet(list) == {list[i] : i \in 1..Len(list)}

\* list.remove(v): the first occurrence goes
RemoveFirst(list, v) ==
    LET i == CHOOSE j \in 1..Len(list) :
                 list[j] = v /\ \A h \in 1..(j - 1) : list[h] # v
    IN  SubSeq(list, 1, i - 1) \o SubSeq(list, i + 1, Len(list))

\* lines 465-470 (and 514-519): the loop over unwanted_values for one key
\* that origin_params held when the loop began.  st.present: the key is
\* still in origin_params; reading origin_params[key] without it is KeyError.
RECURSIVE RemoveLoop(_, _, _)
RemoveLoop(st, unwanted_values, i) ==
    IF i > Len(unwanted_values) \/ st.raised THEN st
    ELSE IF ~st.present THEN [st EXCEPT !.raised = TRUE]
    ELSE IF InList(unwanted_values[i], st.list)
         THEN LET rest == RemoveFirst(st.list, unwanted_values[i])
              IN  RemoveLoop([present |-> rest # <<>>, list |-> rest,
                              found |-> TRUE, raised |-> FALSE],
                             unwanted_values, i + 1)
         ELSE RemoveLoop(st, unwanted_values, i + 1)

\* lines 463-470 (and 512-519).  The keys of unwanted_params are distinct, so
\* each is handled on its own; an exception in any of them leaves the routine.
RemoveUnwanted(origin_params, unwanted_params) ==
    LET hit == (DOMAIN unwanted_params) \cap (DOMAIN origin_params)
        r == [k \in hit |->
                 RemoveLoop([present |-> TRUE, list |-> origin_params[k],
                             found |-> FALSE, raised |-> FALSE],
                            unwanted_params[k], 1)]
        kept == {k \in DOMAIN origin_params : k \in hit => r[k].present}
    IN  [raised |-> \E k \in hit : r[k].raised,
         found  |-> \E k \in hit : r[k].found,
         params |-> [k \in kept |-> IF k \in hit THEN r[k].list
                                                ELSE origin_params[k]]]

Orders(S) == {q \in [1..Cardinality(S) -> S] : ToSet(q) = S}

MergedSymmetric(old, values) ==
    Orders((ToSet(old) \ ToSet(values)) \cup (ToSet(values) \ ToSet(old)))

\* list(set(old + values)): the distinct values, in an order the set decides
Merged(old, values) == Orders(ToSet(old \o values))

\* lines 486-490 (and 521-525): every map the loop can leave in origin_params
AddParams(origin_params, new_params) ==
    LET D == (DOMAIN origin_params) \cup (DOMAIN new_params)
        options(k) ==
            IF k \notin DOMAIN new_params THEN {origin_params[k]}
            ELSE IF k \notin DOMAIN origin_params THEN {new_params[k]}
            ELSE Merged(origin_params[k], new_params[k])
    IN  {m \in [D -> UNION {options(k) : k \in D}] :
            \A k \in D : m[k] \in options(k)}

CaseLists == {<<1>>, <<1, 1>>, <<1, 2>>}

WantedArgs ==
    {EmptyMap, [env |-> <<"mac">>], [os |-> <<"mac", "win">>]}

Iter(op, case, fetched, wrote, written, updated, raised, again) ==
    [op |-> op, case |-> case, fetched |-> fetched, wrote |-> wrote,
     written |-> written, updated |-> updated, raised |-> raised,
     again |-> again]

NoIter == Iter("none", 0, FALSE, FALSE, EmptyMap, FALSE, FALSE, FALSE)

Editors == {"remove", "add", "replace", "remove_all"}

\* One call of one editor: the remote cases and the arguments of the call.
\* Case 1 holds any parameter map without empty lists, case 2 a fixed one.
ParamsInit ==
    /\ pbOp \in Editors \cup {"copy"}
    /\ caseParams \in {f \in [Cases -> ParamMaps(MaxValues)] :
                          /\ \A k \in DOMAIN f[1] : f[1][k] # <<>>
                          /\ f[2] = [os |-> <<"win", "mac">>]}
    /\ params \in IF pbOp \in {"remove_all", "copy"} THEN {EmptyMap}
                  ELSE {m \in ParamMaps(MaxValues) :
                           Size(m) + Size(caseParams[1]) <= MaxValues}
    /\ wanted_params \in IF pbOp = "replace" THEN WantedArgs ELSE {EmptyMap}
    /\ pbTodo = <<>>
    /\ pbStatus = "idle"
    /\ pbOrigin = EmptyMap
    /\ pbIter = NoIter

ParamsIdle ==
    /\ caseParams = [c \in Cases |-> EmptyMap]
    /\ params = EmptyMap
    /\ wanted_params = EmptyMap
    /\ pbOp = "none"
    /\ pbTodo = <<>>
    /\ pbStatus = "idle"
    /\ pbOrigin = EmptyMap
    /\ pbIter = NoIter

\* update_a_test_case(case, {'params': written}) as a loop iteration's last
\* statement: the remote takes the map unless the call raises, which the
\* wrapper swallows; then the loop goes on with the next case
UpdateAndGoOn(op, case, written, updateRaises, again) ==
    /\ caseParams' =
           IF WrapperOutcome("update_a_test_case", updateRaises) = "value"
           THEN [caseParams EXCEPT ![case] = written]
           ELSE caseParams
    /\ pbIter' = Iter(op, case, TRUE, TRUE, written, ~updateRaises, FALSE,
                      again /\ ~updateRaises)
    /\ pbTodo' = Tail(pbTodo)
    /\ pbStatus' =
           IF WrapperOutcome("update_a_test_case", updateRaises) = "raised"
           THEN "raised"
           ELSE IF Tail(pbTodo) = <<>> THEN "done" ELSE "running"

\* an iteration that issues no update: the case could not be fetched
\* (continue), or there was nothing to write
SkipAndGoOn(op, case, fetched) ==
    /\ pbIter' = Iter(op, case, fetched, FALSE, EmptyMap, FALSE, FALSE, FALSE)
    /\ pbTodo' = Tail(pbTodo)
    /\ pbStatus' = IF Tail(pbTodo) = <<>> THEN "done" ELSE "running"
    /\ UNCHANGED caseParams

\* an exception leaves the loop and the routine
RaiseOut(op, case, fetched) ==
    /\ pbIter' = Iter(op, case, fetched, FALSE, EmptyMap, FALSE, TRUE, FALSE)
    /\ pbStatus' = "raised"
    /\ UNCHANGED <<caseParams, pbTodo>>

\* the call of the editor with a list of cases
CallEditor ==
    /\ pbStatus = "idle"
    /\ pbOp \in Editors
    /\ \E cases \in CaseLists :
           /\ pbTodo' = cases
           /\ pbStatus' = "running"
    /\ UNCHANGED <<caseParams, params, wanted_params, pbOp, pbOrigin, pbIter>>
    /\ UNCHANGED <<pageVars, cfgVars, crudVars, syncVars>>

\* lines 444-447: the call of qase_copy_params.  get_test_case returns None
\* when the remote call raises, and origin.result is then AttributeError.
CopyCall ==
    /\ pbStatus = "idle"
    /\ pbOp = "copy"
    /\ \E case_to_copy \in Cases, cases_to_update \in CaseLists,
          fetchRaises \in BOOLEAN :
           IF WrapperOutcome("get_test_case", fetchRaises) = "value"
           THEN /\ pbOrigin' = caseParams[case_to_copy]
                /\ pbTodo' = cases_to_update
                /\ pbStatus' = "running"
                /\ UNCHANGED pbIter
           ELSE /\ pbIter' = Iter("copy", case_to_copy, FALSE, FALSE, EmptyMap,
                                  FALSE, TRUE, FALSE)
                /\ pbStatus' = "raised"
                /\ UNCHANGED <<pbOrigin, pbTodo>>
    /\ UNCHANGED <<caseParams, params, wanted_params, pbOp>>
    /\ UNCHANGED <<pageVars, cfgVars, crudVars, syncVars>>

\* lines 448-449: one iteration of qase_copy_params
CopyIter ==
    /\ pbStatus = "running" /\ pbOp = "copy"
    /\ \E updateRaises \in BOOLEAN :
           UpdateAndGoOn("copy", Head(pbTodo), pbOrigin, updateRaises, FALSE)
    /\ UNCHANGED <<params, wanted_params, pbOp, pbOrigin>>
    /\ UNCHANGED <<pageVars, cfgVars, crudVars, syncVars>>

\* lines 457-473: one iteration of qase_remove_unwanted_params_from_cases
RemoveIter ==
    /\ pbStatus = "running" /\ pbOp = "remove"
    /\ LET case == Head(pbTodo)
       IN  \E fetchRaises, updateRaises \in BOOLEAN :
             IF WrapperOutcome("get_test_case", fetchRaises) = None
             THEN SkipAndGoOn("remove", case, FALSE)
             ELSE IF WrapperOutcome("get_test_case", fetchRaises) = "raised"
             THEN RaiseOut("remove", case, FALSE)
             ELSE LET r == RemoveUnwanted(caseParams[case], params)
                  IN  IF r.raised THEN RaiseOut("remove", case, TRUE)
                      ELSE IF r.found
                      THEN UpdateAndGoOn("remove", case, r.params,
                                         updateRaises, FALSE)
                      ELSE SkipAndGoOn("remove", case, TRUE)
    /\ UNCHANGED <<params, wanted_params, pbOp, pbOrigin>>
    /\ UNCHANGED <<pageVars, cfgVars, crudVars, syncVars>>

\* lines 481-492: one iteration of qase_add_params_to_cases
AddIter ==
    /\ pbStatus = "running" /\ pbOp = "add"
    /\ LET case == Head(pbTodo)
       IN  \E fetchRaises, updateRaises \in BOOLEAN :
             IF WrapperOutcome("get_test_case", fetchRaises) = None
             THEN SkipAndGoOn("add", case, FALSE)
             ELSE IF WrapperOutcome("get_test_case", fetchRaises) = "raised"
             THEN RaiseOut("add", case, FALSE)
             ELSE \E written \in AddParams(caseParams[case], params) :
                      UpdateAndGoOn("add", case, written, updateRaises,
                                    /\ pbIter.op = "add"
                                    /\ pbIter.case = case
                                    /\ pbIter.updated)
    /\ UNCHANGED <<params, wanted_params, pbOp, pbOrigin>>
    /\ UNCHANGED <<pageVars, cfgVars, crudVars, syncVars>>

\* lines 506-528: one iteration of replace_params_in_cases
ReplaceIter ==
    /\ pbStatus = "running" /\ pbOp = "replace"
    /\ LET case == Head(pbTodo)
       IN  \E fetchRaises, updateRaises \in BOOLEAN :
             IF WrapperOutcome("get_test_case", fetchRaises) = None
             THEN SkipAndGoOn("replace", case, FALSE)
             ELSE IF WrapperOutcome("get_test_case", fetchRaises) = "raised"
             THEN RaiseOut("replace", case, FALSE)
             ELSE LET r == RemoveUnwanted(caseParams[case], params)
                  IN  IF r.raised THEN RaiseOut("replace", case, TRUE)
                      ELSE IF r.found
                      THEN \E written \in AddParams(r.params, wanted_params) :
                               UpdateAndGoOn("replace", case, written,
                                             updateRaises, FALSE)
                      ELSE SkipAndGoOn("replace", case, TRUE)
    /\ UNCHANGED <<params, wanted_params, pbOp, pbOrigin>>
    /\ UNCHANGED <<pageVars, cfgVars, crudVars, syncVars>>

\* lines 535-541: one iteration of qase_remove_all_params_from_cases
RemoveAllIter ==
    /\ pbStatus = "running" /\ pbOp = "remove_all"
    /\ LET case == Head(pbTodo)
       IN  \E fetchRaises, updateRaises \in BOOLEAN :
             IF WrapperOutcome("get_test_case", fetchRaises) = None
             THEN SkipAndGoOn("remove_all", case, FALSE)
             ELSE IF WrapperOutcome("get_test_case", fetchRaises) = "raised"
             THEN RaiseOut("remove_all", case, FALSE)
             ELSE IF caseParams[case] # EmptyMap
             THEN UpdateAndGoOn("remove_all", case, EmptyMap, updateRaises,
                                FALSE)
             ELSE SkipAndGoOn("remove_all", case, TRUE)
    /\ UNCHANGED <<params, wanted_params, pbOp, pbOrigin>>
    /\ UNCHANGED <<pageVars, cfgVars, crudVars, syncVars>>

(***************************************************************************)
(*              Milestone, run and case wrappers (one call each)           *)
(***************************************************************************)
\* the remote holds at most MaxRemote milestones and MaxRemote runs
MaxRemote == 2

MilestoneTitles == {"v1", "v2"}
CaseIds == {1, 2}

Crud(w, remoteRaises, outcome, result) ==
    [wrapper |-> w, remoteRaises |-> remoteRaises, outcome |-> outcome,
     result |-> result]

CrudInit ==
    /\ rmMilestones = <<>>
    /\ rmRuns = <<>>
    /\ rmCases = {}
    /\ crudLast = Crud("none", FALSE, None, 0)

\* the first match of line 404-406; 0 when there is none
FirstMilestone(title) ==
    IF \E i \in 1..Len(rmMilestones) : rmMilestones[i] = title
    THEN CHOOSE i \in 1..Len(rmMilestones) :
             /\ rmMilestones[i] = title
             /\ \A j \in 1..(i - 1) : rmMilestones[j] # title
    ELSE 0

\* lines 114-126.  The remote raises for a case it does not hold.
get_test_case ==
    /\ \E case_id \in CaseIds, remoteRaises \in BOOLEAN :
           /\ case_id \notin rmCases => remoteRaises
           /\ crudLast' = Crud("get_test_case", remoteRaises,
                               WrapperOutcome("get_test_case", remoteRaises),
                               case_id)
    /\ UNCHANGED <<rmMilestones, rmRuns, rmCases>>
    /\ UNCHANGED <<pageVars, cfgVars, paramVars, syncVars>>

\* lines 422-436: no remote call for run_id = 0
get_run ==
    /\ \E run_id \in 0..MaxRemote, remoteRaises \in BOOLEAN :
           /\ run_id > Len(rmRuns) => remoteRaises
           /\ crudLast' =
                  IF run_id = 0 THEN Crud("get_run", FALSE, None, 0)
                  ELSE Crud("get_run", remoteRaises,
                            WrapperOutcome("get_run", remoteRaises), run_id)
    /\ UNCHANGED <<rmMilestones, rmRuns, rmCases>>
    /\ UNCHANGED <<pageVars, cfgVars, paramVars, syncVars>>

\* lines 290-316
create_qase_test_run ==
    /\ \E remoteRaises \in BOOLEAN :
           /\ Len(rmRuns) >= MaxRemote => remoteRaises
           /\ rmRuns' = IF remoteRaises THEN rmRuns
                                        ELSE Append(rmRuns, "open")
           /\ crudLast' = Crud("create_qase_test_run", remoteRaises,
                               WrapperOutcome("create_qase_test_run",
                                              remoteRaises),
                               Len(rmRuns'))
    /\ UNCHANGED <<rmMilestones, rmCases>>
    /\ UNCHANGED <<pageVars, cfgVars, paramVars, syncVars>>

\* lines 318-334
complete_qase_test_run ==
    /\ \E run_id \in 1..MaxRemote, remoteRaises \in BOOLEAN :
           /\ run_id > Len(rmRuns) => remoteRaises
           /\ rmRuns' = IF remoteRaises THEN rmRuns
                        ELSE [rmRuns EXCEPT ![run_id] = "complete"]
           /\ crudLast' = Crud("complete_qase_test_run", remoteRaises,
                               WrapperOutcome("complete_qase_test_run",
                                              remoteRaises),
                               run_id)
    /\ UNCHANGED <<rmMilestones, rmCases>>
    /\ UNCHANGED <<pageVars, cfgVars, paramVars, syncVars>>

\* lines 240-288
update_test_results ==
    /\ \E run_id \in 1..MaxRemote, case_id \in CaseIds,
          remoteRaises \in BOOLEAN :
           /\ (run_id > Len(rmRuns) \/ case_id \notin rmCases) => remoteRaises
           /\ crudLast' = Crud("update_test_results", remoteRaises,
                               WrapperOutcome("update_test_results",
                                              remoteRaises),
                               case_id)
    /\ UNCHANGED <<rmMilestones, rmRuns, rmCases>>
    /\ UNCHANGED <<pageVars, cfgVars, paramVars, syncVars>>

\* lines 377-390
create_test_case ==
    /\ \E case_id \in CaseIds, remoteRaises \in BOOLEAN :
           /\ case_id \in rmCases => remoteRaises
           /\ rmCases' = IF remoteRaises THEN rmCases
                                         ELSE rmCases \cup {case_id}
           /\ crudLast' = Crud("create_test_case", remoteRaises,
                               WrapperOutcome("create_test_case",
                                              remoteRaises),
                               case_id)
    /\ UNCHANGED <<rmMilestones, rmRuns>>
    /\ UNCHANGED <<pageVars, cfgVars, paramVars, syncVars>>

\* lines 353-375
update_a_test_case ==
    /\ \E case_id \in CaseIds, remoteRaises \in BOOLEAN :
           /\ case_id \notin rmCases => remoteRaises
           /\ crudLast' = Crud("update_a_test_case", remoteRaises,
                               WrapperOutcome("update_a_test_case",
                                              remoteRaises),
                               case_id)
    /\ UNCHANGED <<rmMilestones, rmRuns, rmCases>>
    /\ UNCHANGED <<pageVars, cfgVars, paramVars, syncVars>>

\* lines 336-351
delete_a_test_case ==
    /\ \E case_id \in CaseIds, remoteRaises \in BOOLEAN :
           /\ case_id \notin rmCases => remoteRaises
           /\ rmCases' = IF remoteRaises THEN rmCases
                                         ELSE rmCases \ {case_id}
           /\ crudLast' = Crud("delete_a_test_case", remoteRaises,
                               WrapperOutcome("delete_a_test_case",
                                              remoteRaises),
                               case_id)
    /\ UNCHANGED <<rmMilestones, rmRuns>>
    /\ UNCHANGED <<pageVars, cfgVars, paramVars, syncVars>>

\* lines 411-420
create_milestone ==
    /\ \E milestone_title \in MilestoneTitles, remoteRaises \in BOOLEAN :
           /\ Len(rmMilestones) >= MaxRemote => remoteRaises
           /\ rmMilestones' = IF remoteRaises THEN rmMilestones
                              ELSE Append(rmMilestones, milestone_title)
           /\ crudLast' = Crud("create_milestone", remoteRaises,
                               WrapperOutcome("create_milestone",
                                              remoteRaises),
                               IF remoteRaises THEN 0 ELSE Len(rmMilestones'))
    /\ UNCHANGED <<rmRuns, rmCases>>
    /\ UNCHANGED <<pageVars, cfgVars, paramVars, syncVars>>

\* lines 392-409: get_milestones, then create_milestone when create_missing
\* is set and no title matches
get_milestone_id ==
    /\ \E milestone_title \in MilestoneTitles, create_missing \in BOOLEAN,
          listRaises \in BOOLEAN, createRaises \in BOOLEAN :
           /\ Len(rmMilestones) >= MaxRemote => createRaises
           /\ IF listRaises
              THEN /\ crudLast' = Crud("get_milestone_id", TRUE,
                                       WrapperOutcome("get_milestone_id", TRUE),
                                       0)
                   /\ UNCHANGED rmMilestones
              ELSE IF FirstMilestone(milestone_title) # 0
              THEN /\ crudLast' = Crud("get_milestone_id", FALSE, "value",
                                       FirstMilestone(milestone_title))
                   /\ UNCHANGED rmMilestones
              ELSE IF ~create_missing
              THEN /\ crudLast' = Crud("get_milestone_id", FALSE, "value", 0)
                   /\ UNCHANGED rmMilestones
              ELSE /\ rmMilestones' =
                          IF createRaises THEN rmMilestones
                          ELSE Append(rmMilestones, milestone_title)
                   /\ crudLast' = Crud("get_milestone_id", createRaises,
                                       WrapperOutcome("create_milestone",
                                                      createRaises),
                                       IF createRaises THEN 0
                                       ELSE Len(rmMilestones'))
    /\ UNCHANGED <<rmRuns, rmCases>>
    /\ UNCHANGED <<pageVars, cfgVars, paramVars, syncVars>>

(***************************************************************************)
(*                    update_test_suites_from_pytest                       *)
(***************************************************************************)
\* None where the other values are integers (a suite id, a parent id)
NoneId == -1

\* Python's truth value of an id: None and 0 are false
Truthy(x) == x # NoneId /\ x # 0

\* ---- str: a string is a sequence of characters
LowerChar(c) ==
    CASE c = "A" -> "a" [] c = "B" -> "b" [] c = "C" -> "c" [] c = "V" -> "v"
      [] OTHER -> c

\* str.lower()
Lower(str) == [i \in 1..Len(str) |-> LowerChar(str[i])]

\* str.split('(', 1)[0]
BeforeParen(str) ==
    IF \E i \in 1..Len(str) : str[i] = "("
    THEN SubSeq(str, 1, (CHOOSE i \in 1..Len(str) :
                             /\ str[i] = "("
                             /\ \A j \in 1..(i - 1) : str[j] # "(") - 1)
    ELSE str

RECURSIVE LStrip(_)
LStrip(str) ==
    IF str # <<>> /\ str[1] = " " THEN LStrip(Tail(str)) ELSE str

RECURSIVE RStrip(_)
RStrip(str) ==
    IF str # <<>> /\ str[Len(str)] = " "
    THEN RStrip(SubSeq(str, 1, Len(str) - 1)) ELSE str

\* str.strip()
Strip(str) == RStrip(LStrip(str))

\* str.replace('-', '')
NoHyphens(str) == LET NotHyphen(c) == c # "-" IN SelectSeq(str, NotHyphen)

\* str.split(): the words between runs of blanks
RECURSIVE Split(_)
Split(str) ==
    LET t == LStrip(str)
    IN  IF t = <<>> THEN <<>>
        ELSE LET n == IF \E i \in 1..Len(t) : t[i] = " "
                      THEN (CHOOSE i \in 1..Len(t) :
                                /\ t[i] = " "
                                /\ \A j \in 1..(i - 1) : t[j] # " ") - 1
                      ELSE Len(t)
             IN  <<SubSeq(t, 1, n)>> \o Split(SubSeq(t, n + 1, Len(t)))

\* ' '.join(words)
RECURSIVE Join(_)
Join(words) ==
    IF words = <<>> THEN <<>>
    ELSE IF Len(words) = 1 THEN words[1]
    ELSE words[1] \o <<" ">> \o Join(Tail(words))

\* lines 186-187 (and 206-207): clean_suite_name
Clean(title) == Join(Split(NoHyphens(Strip(BeforeParen(Lower(title))))))

\* lines 184-190 (and 205-210): suite_id after the loop over qase_suites
MatchId(suites, name) ==
    IF \E i \in 1..Len(suites) : Clean(suites[i].title) = Lower(name)
    THEN suites[CHOOSE i \in 1..Len(suites) :
                    /\ Clean(suites[i].title) = Lower(name)
                    /\ \A j \in 1..(i - 1) :
                           Clean(suites[j].title) # Lower(name)].id
    ELSE 0

Suite(id, title, parent_id) == [id |-> id, title |-> title, parent_id |-> parent_id]

MaxOf(S) == CHOOSE x \in S : \A y \in S : y <= x

\* the id the remote gives the next suite it creates
NewSuiteId(suites) == 1 + MaxOf({suites[i].id : i \in 1..Len(suites)} \cup {9})

\* lines 554-568: create_qase_suite(suite_name, parent_id): the id it returns
\* (None when the remote call raises) and the remote suite list afterwards;
\* parent_id is sent only when it is true
CreateSuite(suites, suite_name, parent_id, remoteRaises) ==
    IF WrapperOutcome("create_qase_suite", remoteRaises) = "value"
    THEN [id |-> NewSuiteId(suites),
          suites |-> Append(suites,
                            Suite(NewSuiteId(suites), suite_name,
                                  IF Truthy(parent_id) THEN parent_id
                                                       ELSE NoneId))]
    ELSE [id |-> NoneId, suites |-> suites]

\* ---- the inputs of the runs that are checked
SuiteNames ==
    {<<"x", " ", "A", " ", "b">>,
     <<"x", " ", "A">>,
     <<"x", " ", "A", " ", "c">>,
     <<"x", " ", "B">>,
     <<"x">>,
     <<>>}

\* 'Test Cases' of a file: the 'Qase ID' of each case, 0 for a case without
CaseIdLists == {<<1>>, <<0, 1, 2>>}

Files == [name : SuiteNames, cases : CaseIdLists]

\* the project holds suite 9 (the one root_parent_suite names) and perhaps
\* suites whose titles resemble the local names
RemoteSuiteLists ==
    {<<Suite(9, <<"r">>, NoneId)>>,
     <<Suite(9, <<"r">>, NoneId),
       Suite(5, <<"A", " ", "-", " ", "(", "v", ")">>, NoneId),
       Suite(6, <<"a">>, NoneId),
       Suite(7, <<"A", " ", " ", "B">>, 5)>>,
     <<Suite(9, <<"r">>, NoneId),
       Suite(7, <<"a", "-", " ", "b">>, NoneId)>>}

KnownSuitesArgs ==
    {EmptyMap,
     [n \in {<<"A">>} |-> 3],
     [n \in {<<"A", " ", "b">>} |-> 4]}

\* the remote cases: case 1 in suite 7, case 2 in no suite
RemoteCases == [c \in {1, 2} |-> IF c = 1 THEN 7 ELSE NoneId]

MaxFiles == 2

Indexes == UNION {[1..n -> Files] : n \in 0..MaxFiles}

Step(step, name, id, leaf, created, updated, api_failed) ==
    [step |-> step, name |-> name, id |-> id, leaf |-> leaf,
     created |-> created, updated |-> updated, api_failed |-> api_failed]

NoStep == Step("none", <<>>, 0, 0, FALSE, FALSE, FALSE)

SyncInit ==
    /\ full_index \in Indexes
    /\ move_cases \in BOOLEAN
    /\ root_parent_suite \in {NoneId, 9}
    /\ assert_parent_suite \in BOOLEAN
    /\ known_suites \in KnownSuitesArgs
    /\ syKnown0 = known_suites
    /\ rmSuites \in RemoteSuiteLists
    /\ rmCaseSuite = RemoteCases
    /\ qase_suites = <<>>
    /\ qase_cases = EmptyMap
    /\ qase_new_dict = EmptyMap
    /\ syFile = 1
    /\ syCase = 1
    /\ syPc = "call"
    /\ syError = "none"
    /\ syCreates = <<>>
    /\ syUpdates = <<>>
    /\ syLast = NoStep

SyncIdle ==
    /\ full_index = <<>>
    /\ move_cases = FALSE
    /\ root_parent_suite = NoneId
    /\ assert_parent_suite = FALSE
    /\ known_suites = EmptyMap
    /\ syKnown0 = EmptyMap
    /\ rmSuites = <<>>
    /\ rmCaseSuite = RemoteCases
    /\ qase_suites = <<>>
    /\ qase_cases = EmptyMap
    /\ qase_new_dict = EmptyMap
    /\ syFile = 1
    /\ syCase = 1
    /\ syPc = "idle"
    /\ syError = "none"
    /\ syCreates = <<>>
    /\ syUpdates = <<>>
    /\ syLast = NoStep

syncInputs == <<full_index, move_cases, root_parent_suite,
                assert_parent_suite, syKnown0>>

\* the names of the file at hand (lines 176-179)
name_split == Split(full_index[syFile].name)
parent_suite == name_split[2]
suite_name == Join(Tail(name_split))

Raise(error) ==
    /\ syPc' = "raised"
    /\ syError' = error

\* the loop goes to the file after this one, or the routine returns
GoToFile(n) ==
    /\ syFile' = n
    /\ syCase' = 1
    /\ syPc' = IF n > Len(full_index) THEN "done" ELSE "file"

\* lines 169-174: the two lists are fetched; a call that raises ends the run
SyncCall ==
    /\ syPc = "call"
    /\ \E suitesRaise, casesRaise \in BOOLEAN :
           IF suitesRaise \/ casesRaise
           THEN /\ Raise("ApiException")
                /\ syLast' = Step("call", <<>>, 0, 0, FALSE, FALSE, TRUE)
                /\ UNCHANGED <<qase_suites, qase_cases, syFile, syCase>>
           ELSE /\ qase_suites' = rmSuites
                /\ qase_cases' = rmCaseSuite
                /\ GoToFile(1)
                /\ syLast' = Step("call", <<>>, 0, 0, FALSE, FALSE, FALSE)
                /\ UNCHANGED syError
    /\ UNCHANGED <<known_suites, qase_new_dict, rmSuites, rmCaseSuite,
                   syCreates, syUpdates, syncInputs>>
    /\ UNCHANGED <<pageVars, cfgVars, paramVars, crudVars>>

\* line 177: a file whose 'Suite Name' has no word is passed over
SkipFile ==
    /\ syPc = "file"
    /\ name_split = <<>>
    /\ GoToFile(syFile + 1)
    /\ syLast' = Step("skip", <<>>, 0, 0, FALSE, FALSE, FALSE)
    /\ UNCHANGED <<known_suites, qase_suites, qase_cases, qase_new_dict,
                   rmSuites, rmCaseSuite, syError, syCreates, syUpdates,
                   syncInputs>>
    /\ UNCHANGED <<pageVars, cfgVars, paramVars, crudVars>>

\* line 178: name_split[1] of a one-word name is IndexError
OneWordName ==
    /\ syPc = "file"
    /\ Len(name_split) = 1
    /\ Raise("IndexError")
    /\ syLast' = Step("name", <<>>, 0, 0, FALSE, FALSE, FALSE)
    /\ UNCHANGED <<known_suites, qase_suites, qase_cases, qase_new_dict,
                   rmSuites, rmCaseSuite, syFile, syCase, syCreates,
                   syUpdates, syncInputs>>
    /\ UNCHANGED <<pageVars, cfgVars, paramVars, crudVars>>

\* line 180 is false: the parent was resolved for an earlier file
ParentCached ==
    /\ syPc = "file"
    /\ Len(name_split) >= 2
    /\ parent_suite \in DOMAIN qase_new_dict
    /\ syPc' = "leaf"
    /\ syLast' = Step("parent_cached", parent_suite,
                      qase_new_dict[parent_suite].id, 0, FALSE, FALSE, FALSE)
    /\ UNCHANGED <<known_suites, qase_suites, qase_cases, qase_new_dict,
                   rmSuites, rmCaseSuite, syFile, syCase, syError, syCreates,
                   syUpdates, syncInputs>>
    /\ UNCHANGED <<pageVars, cfgVars, paramVars, crudVars>>

NewParent(id) == [id |-> id, leaves |-> EmptyMap]

RecordParentMatched(known) ==
    IF parent_suite \in DOMAIN known
    THEN /\ qase_new_dict' =
                DictSet(qase_new_dict, parent_suite,
                        NewParent(MatchId(qase_suites, parent_suite)))
         /\ syPc' = "leaf"
         /\ UNCHANGED syError
    ELSE /\ Raise("KeyError")
         /\ UNCHANGED qase_new_dict

\* lines 198-199: parent_suite_id = known_suites[parent_suite], a KeyError
\* when the name is not a key
RecordParent(known) ==
    IF parent_suite \in DOMAIN known
    THEN /\ qase_new_dict' =
                DictSet(qase_new_dict, parent_suite,
                        NewParent(known[parent_suite]))
         /\ syPc' = "leaf"
         /\ UNCHANGED syError
    ELSE /\ Raise("KeyError")
         /\ UNCHANGED qase_new_dict

\* lines 180-199 with assert_parent_suite: the parent must be a key of
\* known_suites
AssertParent ==
    /\ syPc = "file"
    /\ Len(name_split) >= 2
    /\ parent_suite \notin DOMAIN qase_new_dict
    /\ assert_parent_suite
    /\ IF parent_suite \in DOMAIN known_suites
       THEN RecordParent(known_suites)
       ELSE Raise("AssertionError") /\ UNCHANGED qase_new_dict
    /\ syLast' = Step("parent_asserted", parent_suite, 0, 0, FALSE, FALSE,
                      FALSE)
    /\ UNCHANGED <<known_suites, qase_suites, qase_cases, rmSuites,
                   rmCaseSuite, syFile, syCase, syCreates, syUpdates,
                   syncInputs>>
    /\ UNCHANGED <<pageVars, cfgVars, paramVars, crudVars>>

Created(suite_name_, parent_id, id) ==
    [name |-> suite_name_, parent_id |-> parent_id, id |-> id]

\* lines 180-199 without assert_parent_suite
ResolveParent ==
    /\ syPc = "file"
    /\ Len(name_split) >= 2
    /\ parent_suite \notin DOMAIN qase_new_dict
    /\ ~assert_parent_suite
    /\ IF Truthy(MatchId(qase_suites, parent_suite))
       THEN /\ RecordParent(known_suites)
            /\ syLast' = Step("parent", parent_suite,
                              MatchId(qase_suites, parent_suite), 0, FALSE,
                              FALSE, FALSE)
            /\ UNCHANGED <<known_suites, qase_suites, rmSuites, syCreates>>
       ELSE \E createRaises, refreshRaises \in BOOLEAN :
              LET made == CreateSuite(rmSuites, parent_suite,
                                      root_parent_suite, createRaises)
              IN  /\ rmSuites' = made.suites
                  /\ syCreates' = Append(syCreates,
                                         Created(parent_suite,
                                                 root_parent_suite, made.id))
                  /\ syLast' = Step("parent", parent_suite, made.id, 0, TRUE,
                                    FALSE, createRaises \/ refreshRaises)
                  /\ IF refreshRaises
                     THEN /\ Raise("ApiException")
                          /\ UNCHANGED <<known_suites, qase_suites,
                                         qase_new_dict>>
                     ELSE /\ qase_suites' = made.suites
                          /\ known_suites' =
                                 DictSet(known_suites, parent_suite, made.id)
                          /\ RecordParent(known_suites')
    /\ UNCHANGED <<qase_cases, rmCaseSuite, syFile, syCase, syUpdates,
                   syncInputs>>
    /\ UNCHANGED <<pageVars, cfgVars, paramVars, crudVars>>

NewLeaf(id) == [cases |-> <<>>, id |-> id]

WithLeaf(index, parent, leaf, entry) ==
    [index EXCEPT ![parent].leaves = DictSet(index[parent].leaves, leaf, entry)]

\* lines 202-210: suite_id before line 211
LeafLookup ==
    IF suite_name \in DOMAIN known_suites THEN known_suites[suite_name]
    ELSE MatchId(qase_suites, suite_name)

\* lines 200-216
ResolveLeaf ==
    /\ syPc = "leaf"
    /\ IF suite_name \in DOMAIN qase_new_dict[parent_suite].leaves
       THEN /\ syLast' = Step("leaf_cached", suite_name,
                              qase_new_dict[parent_suite].leaves[suite_name].id,
                              0, FALSE, FALSE, FALSE)
            /\ syPc' = "cases"
            /\ UNCHANGED <<qase_suites, qase_new_dict, rmSuites, syCreates,
                           syError>>
       ELSE IF Truthy(LeafLookup)
       THEN /\ qase_new_dict' = WithLeaf(qase_new_dict, parent_suite,
                                         suite_name, NewLeaf(LeafLookup))
            /\ syLast' = Step("leaf", suite_name, LeafLookup, 0, FALSE, FALSE,
                              FALSE)
            /\ syPc' = "cases"
            /\ UNCHANGED <<qase_suites, rmSuites, syCreates, syError>>
       ELSE \E createRaises, refreshRaises \in BOOLEAN :
              LET made == CreateSuite(rmSuites, suite_name,
                                      qase_new_dict[parent_suite].id,
                                      createRaises)
              IN  /\ rmSuites' = made.suites
                  /\ syCreates' = Append(syCreates,
                                         Created(suite_name,
                                                 qase_new_dict[parent_suite].id,
                                                 made.id))
                  /\ syLast' = Step("leaf", suite_name, made.id, 0, TRUE,
                                    FALSE, createRaises \/ refreshRaises)
                  /\ IF refreshRaises
                     THEN /\ Raise("ApiException")
                          /\ UNCHANGED <<qase_suites, qase_new_dict>>
                     ELSE /\ qase_suites' = made.suites
                          /\ qase_new_dict' =
                                 WithLeaf(qase_new_dict, parent_suite,
                                          suite_name, NewLeaf(made.id))
                          /\ syPc' = "cases"
                          /\ UNCHANGED syError
    /\ UNCHANGED <<known_suites, qase_cases, rmCaseSuite, syFile, syCase,
                   syUpdates, syncInputs>>
    /\ UNCHANGED <<pageVars, cfgVars, paramVars, crudVars>>

\* line 223
MustMove(case_suite_id, leaf_id) == case_suite_id # leaf_id

\* lines 217-233: one test case of the file
VisitCase ==
    /\ syPc = "cases"
    /\ syCase <= Len(full_index[syFile].cases)
    /\ LET qase_id == full_index[syFile].cases[syCase]
           leaf == qase_new_dict[parent_suite].leaves[suite_name]
       IN  /\ qase_new_dict' =
                  IF qase_id # 0
                  THEN WithLeaf(qase_new_dict, parent_suite, suite_name,
                                [leaf EXCEPT !.cases = Append(@, qase_id)])
                  ELSE qase_new_dict
           /\ IF /\ qase_id # 0
                 /\ qase_id \in DOMAIN qase_cases
                 /\ MustMove(qase_cases[qase_id], leaf.id)
                 /\ move_cases
              THEN \E updateRaises \in BOOLEAN :
                     /\ syUpdates' = Append(syUpdates,
                                            [case_id |-> qase_id,
                                             suite_id |-> leaf.id])
                     /\ rmCaseSuite' =
                            IF WrapperOutcome("update_a_test_case",
                                              updateRaises) = "value"
                            THEN [rmCaseSuite EXCEPT ![qase_id] = leaf.id]
                            ELSE rmCaseSuite
                     /\ syLast' = Step("case", suite_name, qase_id, leaf.id,
                                       FALSE, TRUE, updateRaises)
              ELSE /\ syLast' = Step("case", suite_name, qase_id, leaf.id,
                                     FALSE, FALSE, FALSE)
                   /\ UNCHANGED <<syUpdates, rmCaseSuite>>
    /\ syCase' = syCase + 1
    /\ UNCHANGED <<known_suites, qase_suites, qase_cases, rmSuites, syFile,
                   syPc, syError, syCreates, syncInputs>>
    /\ UNCHANGED <<pageVars, cfgVars, paramVars, crudVars>>

\* the loop over 'Test Cases' is over
NextFile ==
    /\ syPc = "cases"
    /\ syCase > Len(full_index[syFile].cases)
    /\ GoToFile(syFile + 1)
    /\ syLast' = Step("next", <<>>, 0, 0, FALSE, FALSE, FALSE)
    /\ UNCHANGED <<known_suites, qase_suites, qase_cases, qase_new_dict,
                   rmSuites, rmCaseSuite, syError, syCreates, syUpdates,
                   syncInputs>>
    /\ UNCHANGED <<pageVars, cfgVars, paramVars, crudVars>>

(***************************************************************************)
(*                            Specifications                               *)
(***************************************************************************)
InitPage == PageInit /\ ConfigInit /\ ParamsIdle /\ CrudInit /\ SyncIdle

NextPage == PageCall \/ PageCallFails \/ PageReturn

SpecPage == InitPage /\ [][NextPage]_vars

InitConfig == PageIdle /\ ConfigInit /\ ParamsIdle /\ CrudInit /\ SyncIdle

NextConfig ==
    \/ add_run_id
    \/ add_run_title
    \/ complete_run
    \/ dont_complete_run
    \/ init
    \/ write
    \/ read
    \/ remove

SpecConfig == InitConfig /\ [][NextConfig]_vars

InitParams == PageIdle /\ ConfigInit /\ ParamsInit /\ CrudInit /\ SyncIdle

NextParams ==
    \/ CallEditor
    \/ CopyCall
    \/ CopyIter
    \/ RemoveIter
    \/ AddIter
    \/ ReplaceIter
    \/ RemoveAllIter

SpecParams == InitParams /\ [][NextParams]_vars

InitCrud == PageIdle /\ ConfigInit /\ ParamsIdle /\ CrudInit /\ SyncIdle

NextCrud ==
    \/ get_test_case
    \/ get_run
    \/ create_qase_test_run
    \/ complete_qase_test_run
    \/ update_test_results
    \/ create_test_case
    \/ update_a_test_case
    \/ delete_a_test_case
    \/ create_milestone
    \/ get_milestone_id

SpecCrud == InitCrud /\ [][NextCrud]_vars

InitSync == PageIdle /\ ConfigInit /\ ParamsIdle /\ CrudInit /\ SyncInit

NextSync ==
    \/ SyncCall
    \/ SkipFile
    \/ OneWordName
    \/ ParentCached
    \/ AssertParent
    \/ ResolveParent
    \/ ResolveLeaf
    \/ VisitCase
    \/ NextFile

SpecSync == InitSync /\ [][NextSync]_vars

(***************************************************************************)
(*                               Claims                                    *)
(***************************************************************************)
CeilDiv(n, p) == (n + p - 1) \div p

ExpectedOffsets(n, p) ==
    [i \in 1..(IF n = 0 THEN 1 ELSE CeilDiv(n, p)) |-> (i - 1) * p]

\* C1: when get_all_instances returns, its result is the remote collection,
\* every entity once and in the remote's order, and func was called
\* ceil(N/P) times, at offsets 0, P, 2P, ... (once, at offset 0, when N = 0).
C1_PaginationComplete ==
    pgPc = "done" =>
        /\ pgResult = pgRemote
        /\ pgCalls = ExpectedOffsets(Len(pgRemote), pgLimit)

\* a fetch of several pages whose last page is full
C1_Witness ==
    /\ pgPc = "done"
    /\ Len(pgCalls) >= 2
    /\ Len(pgRemote) = Len(pgCalls) * pgLimit

\* C2: the run section never holds both 'id' and 'title'; once add_run_id or
\* add_run_title has been called, exactly one of the two keys is present: the
\* one the most recent of those calls set, with the value it was given.
C2_RunIdXorTitle ==
    LET run == Run(config_obj)
    IN  /\ ~("id" \in DOMAIN run /\ "title" \in DOMAIN run)
        /\ cfgRun.kind = "id" =>
               /\ "id" \in DOMAIN run
               /\ "title" \notin DOMAIN run
               /\ run["id"] = cfgRun.n
        /\ cfgRun.kind = "title" =>
               /\ "title" \in DOMAIN run
               /\ "id" \notin DOMAIN run
               /\ run["title"] = cfgRun.s

\* add_run_id has just replaced a run title
C2_Witness ==
    /\ cfgLast.op = "dont_complete_run"
    /\ cfgRun.kind = "id"
    /\ Run(config_obj)["id"] = 12
    /\ "title" \notin DOMAIN Run(config_obj)

\* C3: add_run_id leaves run.complete false and add_run_title leaves it true;
\* complete_run and dont_complete_run set run.complete to true and to false
\* and change nothing else of the document.
C3_CompleteFlag ==
    [][/\ (cfgLast'.op = "add_run_id" /\ ~cfgLast'.raised) =>
              Run(config_obj')["complete"] = FALSE
       /\ cfgLast'.op = "add_run_title" =>
              Run(config_obj')["complete"] = TRUE
       /\ cfgLast'.op \in {"complete_run", "dont_complete_run"} =>
              /\ Run(config_obj')["complete"] = (cfgLast'.op = "complete_run")
              /\ DOMAIN Run(config_obj') = DOMAIN Run(config_obj)
              /\ \A k \in DOMAIN Run(config_obj) \ {"complete"} :
                     Run(config_obj')[k] = Run(config_obj)[k]
              /\ \A f \in DOMAIN config_obj \ {"testops"} :
                     config_obj'[f] = config_obj[f]
              /\ \A f \in DOMAIN config_obj.testops \ {"run"} :
                     config_obj'.testops[f] = config_obj.testops[f]
      ]_vars

\* complete_run has closed a run that is attached by id
C3_Witness ==
    /\ cfgLast.op = "complete_run"
    /\ "id" \in DOMAIN Run(config_obj)
    /\ Run(config_obj)["complete"] = TRUE

SetView(m) == [k \in DOMAIN m |-> ToSet(m[k])]

\* C4: qase_add_params_to_cases is idempotent: when the same params have just
\* been added to a case, adding them to that case again leaves it with the
\* same keys and the same set of values for each key.
C4_AddIdempotent ==
    [][pbIter'.again =>
           SetView(caseParams'[pbIter'.case]) = SetView(caseParams[pbIter'.case])
      ]_vars

\* params were added twice to a case that lacked the key: the first call
\* stored the list as given, the second stored its distinct values
C4_Witness ==
    /\ pbIter.again
    /\ params = [os |-> <<"win", "win">>]
    /\ caseParams[1] = [env |-> <<"mac">>, os |-> <<"win">>]

Without(list, unwanted_values) ==
    LET Kept(v) == ~InList(v, unwanted_values)
    IN  SelectSeq(list, Kept)

\* the map with every listed value gone, and the keys this emptied
AfterRemoval(before, unwanted) ==
    LET left(k) == IF k \in DOMAIN unwanted
                   THEN Without(before[k], unwanted[k]) ELSE before[k]
    IN  [k \in {x \in DOMAIN before : left(x) # <<>> \/ before[x] = <<>>}
            |-> left(k)]

Matches(before, unwanted) ==
    \E k \in (DOMAIN before) \cap (DOMAIN unwanted) :
        ToSet(before[k]) \cap ToSet(unwanted[k]) # {}

\* C5: for a case that could be fetched, an iteration of
\* qase_remove_unwanted_params_from_cases raises nothing; it issues an update
\* exactly when a listed value occurs in the case, and the map it writes has
\* every listed value gone, every other value kept, and no key whose list
\* became empty.
C5_RemoveWritesExpected ==
    [][(pbIter'.op = "remove" /\ pbIter'.fetched) =>
           /\ ~pbIter'.raised
           /\ pbIter'.wrote <=> Matches(caseParams[pbIter'.case], params)
           /\ pbIter'.wrote =>
                  pbIter'.written =
                      AfterRemoval(caseParams[pbIter'.case], params)
      ]_vars

\* C6: for a case that could be fetched, an iteration of
\* replace_params_in_cases issues an update if and only if a value of
\* unwanted_params occurs in the case; without an update the case keeps its
\* parameter map; the map written is the removal followed by the union with
\* wanted_params.
C6_ReplaceIffMatched ==
    [][(pbIter'.op = "replace" /\ pbIter'.fetched) =>
           LET before == caseParams[pbIter'.case]
               removed == AfterRemoval(before, params)
               keys == (DOMAIN removed) \cup (DOMAIN wanted_params)
           IN  /\ pbIter'.wrote <=> Matches(before, params)
               /\ ~pbIter'.wrote => caseParams'[pbIter'.case] = before
               /\ pbIter'.wrote =>
                      SetView(pbIter'.written) =
                          [k \in keys |->
                              (IF k \in DOMAIN removed
                               THEN ToSet(removed[k]) ELSE {})
                              \cup
                              (IF k \in DOMAIN wanted_params
                               THEN ToSet(wanted_params[k]) ELSE {})]
      ]_vars

CrudWrappers ==
    {"get_test_case", "get_run", "create_qase_test_run",
     "complete_qase_test_run", "update_test_results", "create_test_case",
     "update_a_test_case", "delete_a_test_case", "get_milestone_id",
     "create_milestone"}

\* C7: a milestone, run or case wrapper whose remote call fails returns None
\* to its caller; it does not raise.
C7_WrappersReturnNone ==
    (crudLast.wrapper \in CrudWrappers /\ crudLast.remoteRaises) =>
        crudLast.outcome = None

\* the first suite of the list whose normalized title is the normalized name
FirstMatching(suites, name) ==
    LET hits == {i \in 1..Len(suites) : Clean(suites[i].title) = Lower(name)}
    IN  IF hits = {} THEN 0
        ELSE suites[CHOOSE i \in hits : \A j \in hits : i <= j].id

\* C8: without assert_parent_suite, when the parent of the file at hand is
\* not yet resolved and no remote call fails: the routine does not raise; if
\* a remote title matches the parent name, nothing is created and the index
\* holds the id of the first match; if none matches, exactly one suite is
\* created under root_parent_suite, and known_suites and the index hold its id
C8_ParentResolution ==
    [][(syLast'.step = "parent" /\ ~syLast'.api_failed) =>
          LET match == FirstMatching(qase_suites, parent_suite)
              made  == syCreates'[Len(syCreates')]
          IN  /\ syPc' # "raised"
              /\ match # 0 =>
                    /\ syCreates' = syCreates
                    /\ qase_new_dict'[parent_suite].id = match
              /\ match = 0 =>
                    /\ Len(syCreates') = Len(syCreates) + 1
                    /\ made.name = parent_suite
                    /\ made.parent_id = root_parent_suite
                    /\ known_suites'[parent_suite] = made.id
                    /\ qase_new_dict'[parent_suite].id = made.id]_vars

\* C9: in one run no two create calls carry the same suite name; a name that
\* is resolved keeps its id for the rest of the run, as a parent and as a
\* leaf; and while the run goes on the routine's suite list is the remote's
C9_CreateOncePerName ==
    [][/\ \A i, j \in 1..Len(syCreates') :
              i < j => syCreates'[i].name # syCreates'[j].name
       /\ \A p \in DOMAIN qase_new_dict :
              /\ p \in DOMAIN qase_new_dict'
              /\ qase_new_dict'[p].id = qase_new_dict[p].id
              /\ \A l \in DOMAIN qase_new_dict[p].leaves :
                     /\ l \in DOMAIN qase_new_dict'[p].leaves
                     /\ qase_new_dict'[p].leaves[l].id =
                            qase_new_dict[p].leaves[l].id
       /\ \A p \in DOMAIN qase_new_dict' :
              p \in DOMAIN qase_new_dict'[p].leaves =>
                  qase_new_dict'[p].leaves[p].id = qase_new_dict'[p].id
       /\ syPc' \in {"file", "leaf", "cases", "done"} =>
              qase_suites' = rmSuites']_vars

\* C10: when a local case with a Qase ID is visited and the remote holds that
\* case: without move_cases no update call is issued in the run; with
\* move_cases, if the remote case's suite_id differs from the leaf id exactly
\* one update is issued for the visit, setting suite_id to the leaf id; if
\* the remote case's suite_id is the leaf id, no update is issued
C10_MoveFlag ==
    [][(/\ syLast'.step = "case"
        /\ syLast'.id # 0
        /\ syLast'.id \in DOMAIN rmCaseSuite) =>
          LET differs == rmCaseSuite[syLast'.id] # syLast'.leaf
          IN  /\ ~move_cases => syUpdates' = <<>>
              /\ (differs /\ move_cases) =>
                    /\ Len(syUpdates') = Len(syUpdates) + 1
                    /\ syUpdates'[Len(syUpdates')] =
                           [case_id |-> syLast'.id, suite_id |-> syLast'.leaf]
              /\ ~differs => syUpdates' = syUpdates]_vars

\* C11: in update_test_suites_from_pytest a remote call that fails ends the
\* run by raising (no index is returned), and no step of the run follows
\* the step in which the call failed
C11_FailureAborts ==
    [][/\ syLast'.api_failed => syPc' = "raised"
       /\ ~syLast.api_failed]_vars

WordsOf(i) == Split(full_index[i].name)

\* the run is past the parent of the i-th file
ParentPassed(i) ==
    \/ i < syFile
    \/ i = syFile /\ syPc \in {"leaf", "cases"}

\* C13: with assert_parent_suite no create call carries the parent name of
\* a file, every parent id in the index is the caller's known_suites entry
\* for that name, the run never gets past a file whose parent name is not a
\* key of known_suites, and the step that meets such a file ends the run
\* with AssertionError
C13_AssertParentSuite ==
    assert_parent_suite =>
        /\ \A k \in 1..Len(syCreates), i \in 1..Len(full_index) :
               Len(WordsOf(i)) >= 2 => syCreates[k].name # WordsOf(i)[2]
        /\ \A p \in DOMAIN qase_new_dict :
               /\ p \in DOMAIN syKnown0
               /\ qase_new_dict[p].id = syKnown0[p]
        /\ \A i \in 1..Len(full_index) :
               (ParentPassed(i) /\ Len(WordsOf(i)) >= 2) =>
                   WordsOf(i)[2] \in DOMAIN syKnown0
        /\ (syLast.step = "parent_asserted"
              /\ syLast.name \notin DOMAIN syKnown0) =>
               (syPc = "raised" /\ syError = "AssertionError")
        /\ syError = "AssertionError" =>
               (syLast.step = "parent_asserted"
                  /\ syLast.name \notin DOMAIN syKnown0)

\* the first file was placed under the caller's id for "A", the second
\* file's parent is not in known_suites and the run ended on it
C13_Witness ==
    /\ assert_parent_suite
    /\ syFile = 2
    /\ syError = "AssertionError"
    /\ <<"A">> \in DOMAIN qase_new_dict
    /\ qase_new_dict[<<"A">>].id = 3
    /\ rmSuites \in RemoteSuiteLists /\ Len(rmSuites) = 4

\* C14: for every name of the known_suites map the caller passed: no create
\* call carries that name, the map still holds the caller's id for it, and
\* the index holds that id wherever the name is resolved, as a parent or as
\* a leaf
C14_KnownSuitesOverride ==
    \A n \in DOMAIN syKnown0 :
        /\ \A k \in 1..Len(syCreates) : syCreates[k].name # n
        /\ n \in DOMAIN known_suites
        /\ known_suites[n] = syKnown0[n]
        /\ n \in DOMAIN qase_new_dict => qase_new_dict[n].id = syKnown0[n]
        /\ \A p \in DOMAIN qase_new_dict :
               n \in DOMAIN qase_new_dict[p].leaves =>
                   qase_new_dict[p].leaves[n].id = syKnown0[n]

\* C15: whatever the number of words of a file's 'Suite Name', the step that
\* reads the name does not end the run: the file is passed over or the run
\* goes on to its suites, and no run ends with the IndexError of a name
\* that is too short
C15_AnyNameShape ==
    /\ syError # "IndexError"
    /\ syLast.step \in {"skip", "name"} => syPc # "raised"

====
